---- MODULE Spec2Model ----
(***************************************************************************)
(* State-machine model of the LabelSpy Telegram bot                        *)
(* (src/telegram_bot/bot.py): the per-user session kept in                 *)
(* context.user_data, the sqlite table `analyses`, and the handlers        *)
(* registered in main().                                                   *)
(*                                                                         *)
(* Application.builder().token(..).build() processes updates one at a      *)
(* time and keeps user_data in memory, so every handler is one atomic      *)
(* action and a process restart empties every session while the table and  *)
(* the inline keyboards already delivered to the chats survive.            *)
(* SpecDispatch models the processing of the update queue itself, with     *)
(* the handlers split at the await of their gateway call.                  *)
(*                                                                         *)
(* Modelling conventions                                                   *)
(*  - A text is [body, len]: the first `len` characters of the character   *)
(*    stream `body`; s[:n] is Slice(s, n).                                 *)
(*  - A Python dict is a function from its keys; dict.get is Get.          *)
(*  - The provider's free-form output is a sequence of tokens: "{" and "}" *)
(*    are the brace characters, "w" is prose, "m" is a well-formed         *)
(*    non-empty JSON member list whose meaning is the response's `members`.*)
(*  - Columns username and json_result of `analyses` are never read by the *)
(*    program and are left out of the rows.                                *)
(***************************************************************************)
EXTENDS Integers, Sequences, FiniteSets, TLC

VARIABLES
  user_data,      \* context.user_data of every user
  db,             \* rows of table analyses, in insertion order
  clock,          \* CURRENT_TIMESTAMP of the database, in seconds
  shown,          \* callback_data of the inline buttons delivered to each chat
  last_photo,     \* history variable: what the latest photo event of each user recognized
  produced_from,  \* history variable: the text user_data[u].last_analysis was computed from
  ev,             \* the event handled last and what it did
  app             \* the Application: its update queue and the handlers suspended in a gateway call

vars == <<user_data, db, clock, shown, last_photo, produced_from, ev, app>>

----------------------------------------------------------------------------
(* Bounds of the model *)

MaxRecords == 2
MaxClock == 1
MaxTextLen == 501
MaxUpdates == 4
MaxRunning == 2

(* Program constants *)

ExcerptLen == 500
PreviewLen == 200
HistoryLimit == 10
RecipeLimit == 3

----------------------------------------------------------------------------
(* Values *)

Users == {"u1", "u2"}

None == [none |-> TRUE]

EmptyText == [body |-> "", len |-> 0]

Texts == {[body |-> "a", len |-> 3], [body |-> "b", len |-> MaxTextLen]}

EmptyDict == [k \in {} |-> ""]

Min(a, b) == IF a <= b THEN a ELSE b

\* s[:n]
Slice(s, n) == [body |-> s.body, len |-> Min(s.len, n)]

\* not v
Falsy(v) == v = None \/ v = EmptyText \/ v = EmptyDict

\* d.get(k, default)
Get(d, k, default) == IF k \in DOMAIN d THEN d[k] ELSE default

\* seq[:n]
Take(seq, n) == SubSeq(seq, 1, Min(Len(seq), n))

----------------------------------------------------------------------------
(* Recognition Gateway: ocr_recognize *)

\* What the Yandex Vision call can produce: an exception (file, network, JSON
\* decoding), a non-200 status, or status 200 with `text` the concatenation
\* of the words of the response (EmptyText when it holds none).
OcrResponses(texts) ==
  {[raised |-> TRUE, status |-> 0, text |-> EmptyText],
   [raised |-> FALSE, status |-> 500, text |-> EmptyText]}
  \cup {[raised |-> FALSE, status |-> 200, text |-> t] : t \in texts \cup {EmptyText}}

ocr_recognize(resp) ==
  IF resp.raised THEN None
  ELSE IF resp.status = 200 THEN resp.text
  ELSE None

----------------------------------------------------------------------------
(* Analysis Gateway: analyze_with_gemini *)

\* JSON objects the provider may answer the analyze prompt with
AnalysisMembers ==
  {[productName |-> "Snack", verdict |-> "ok", riskLevel |-> "safe"],
   [productName |-> "Snack", verdict |-> "ok", riskLevel |-> "low"],
   [productName |-> "Snack", verdict |-> "ok"],
   [riskLevel |-> "moderate"]}

\* JSON objects the provider may answer the recipes prompt with
RecipeMembers ==
  {[recipes |-> <<>>], [recipes |-> <<"r1", "r2", "r3", "r4">>], [verdict |-> "ok"]}

\* Free-form outputs with no member list in them
PlainContents == {<<"w">>, <<"{", "}">>}

\* Free-form outputs around a member list: the bare object, the object inside
\* prose, a truncated object, two objects
MemberContents ==
  {<<"{", "m", "}">>, <<"w", "{", "m", "}", "w">>, <<"{", "m">>,
   <<"{", "m", "}", "w", "{", "m", "}">>}

GeminiResponses(members) ==
  {[raised |-> TRUE, status |-> 0, content |-> <<>>, members |-> EmptyDict],
   [raised |-> FALSE, status |-> 500, content |-> <<>>, members |-> EmptyDict]}
  \cup {[raised |-> FALSE, status |-> 200, content |-> c, members |-> EmptyDict] :
          c \in PlainContents}
  \cup {[raised |-> FALSE, status |-> 200, content |-> c, members |-> m] :
          c \in MemberContents, m \in members}

NoMatch == <<>>

Raise == [raise |-> TRUE]

\* re.search(r'\{[\s\S]*\}', content).group(): greedy, from the first "{" to
\* the last "}" of the content
re_search(content) ==
  LET opens == {i \in 1..Len(content) : content[i] = "{"}
      closes == {i \in 1..Len(content) : content[i] = "}"}
  IN IF opens = {} \/ closes = {} THEN NoMatch
     ELSE LET first == CHOOSE i \in opens : \A j \in opens : i <= j
              last == CHOOSE i \in closes : \A j \in closes : j <= i
          IN IF first < last THEN SubSeq(content, first, last) ELSE NoMatch

\* json.loads of a text that starts with "{" and ends with "}"
json_loads(s, members) ==
  IF s = <<"{", "m", "}">> THEN members
  ELSE IF s = <<"{", "}">> THEN EmptyDict
  ELSE Raise

analyze_with_gemini(resp) ==
  IF resp.raised THEN None
  ELSE IF resp.status = 200
       THEN LET json_match == re_search(resp.content)
            IN IF json_match # NoMatch
               THEN LET parsed == json_loads(json_match, resp.members)
                    IN IF parsed = Raise THEN None ELSE parsed
               ELSE None
       ELSE None

----------------------------------------------------------------------------
(* Presentation helpers *)

\* {'safe': .., 'moderate': .., 'high': ..}.get(risk, question mark)
risk_emoji(risk) ==
  CASE risk = "safe" -> "check"
    [] risk = "moderate" -> "warning"
    [] risk = "high" -> "red"
    [] OTHER -> "question"

PreviewKeyboard == {"analyze", "edit", "cancel"}

AnalysisKeyboard == {"recipes", "cancel"}

RecipesKeyboard == {"back_to_analysis"}

\* What one event did: the handler, the last message the user is left with
\* (reply, its content and buttons), the gateway call made (None when none),
\* the id of the row inserted (0 when none), the ids of the rows fetched.
Event(u, op, reply, view, buttons, call, record, results) ==
  [user |-> u, op |-> op, reply |-> reply, view |-> view, buttons |-> buttons,
   call |-> call, record |-> record, results |-> results]

----------------------------------------------------------------------------
(* init_db and the initial state *)

\* Mutant of init_db: the table is dropped and created anew at every start
init_db_drop(rows) == <<>>

\* CREATE TABLE IF NOT EXISTS analyses: an existing table keeps its rows
init_db(rows) == rows

\* No photo event yet
NoPhoto == [nophoto |-> TRUE]

NoSession == [last_composition |-> None, last_analysis |-> None]

NoEvent == Event("u1", "none", "none", None, {}, None, 0, <<>>)

\* The Application after build(): no update arrived, no handler running.
\* Updates are numbered in their order of arrival.
NoUpdates == [update_queue |-> <<>>, running |-> <<>>, arrived |-> 0, started |-> 0]

Init ==
  /\ user_data = [u \in Users |-> NoSession]
  /\ db = init_db(<<>>)
  /\ clock = 0
  /\ shown = [u \in Users |-> {}]
  /\ last_photo = [u \in Users |-> NoPhoto]
  /\ produced_from = [u \in Users |-> None]
  /\ ev = NoEvent
  /\ app = NoUpdates

----------------------------------------------------------------------------
(* Commands start and help *)

start(u) ==
  /\ ev' = Event(u, "start", "welcome", None, {}, None, 0, <<>>)
  /\ UNCHANGED <<user_data, db, clock, shown, last_photo, produced_from, app>>

help_command(u) ==
  /\ ev' = Event(u, "help", "help", None, {}, None, 0, <<>>)
  /\ UNCHANGED <<user_data, db, clock, shown, last_photo, produced_from, app>>

\* "/clear", the command help_command advertises: main() registers no
\* handler for it, so the update matches nothing and is dropped
clear_command(u) ==
  /\ ev' = Event(u, "clear", "none", None, {}, None, 0, <<>>)
  /\ UNCHANGED <<user_data, db, clock, shown, last_photo, produced_from, app>>

----------------------------------------------------------------------------
(* handle_photo *)

\* Mutant of recognition_failed: `if composition_text is None`
recognition_failed_none_only(composition_text) == composition_text = None

\* if not composition_text
recognition_failed(composition_text) == Falsy(composition_text)

\* Mutant of store_composition: user_data.setdefault, the first text is kept
store_composition_once(session, composition_text) ==
  IF session.last_composition = None
  THEN [session EXCEPT !.last_composition = composition_text]
  ELSE session

\* context.user_data['last_composition'] = composition_text
store_composition(session, composition_text) ==
  [session EXCEPT !.last_composition = composition_text]

\* Mutant of photo_step: the text is kept in a module-level variable that
\* every user's session reads
photo_step_shared(u, resp) ==
  LET composition_text == ocr_recognize(resp)
  IN IF recognition_failed(composition_text)
     THEN /\ ev' = Event(u, "photo", "recognition_failed", None, {}, None, 0, <<>>)
          /\ last_photo' = [last_photo EXCEPT ![u] = None]
          /\ UNCHANGED <<user_data, db, clock, shown, produced_from>>
     ELSE /\ user_data' = [v \in Users |-> store_composition(user_data[v], composition_text)]
          /\ shown' = [shown EXCEPT ![u] = @ \cup PreviewKeyboard]
          /\ ev' = Event(u, "photo", "preview",
                         [preview |-> Slice(composition_text, PreviewLen),
                          ellipsis |-> composition_text.len > PreviewLen],
                         PreviewKeyboard, None, 0, <<>>)
          /\ last_photo' = [last_photo EXCEPT ![u] = composition_text]
          /\ UNCHANGED <<db, clock, produced_from>>

photo_step(u, resp) ==
  LET composition_text == ocr_recognize(resp)
  IN IF recognition_failed(composition_text)
     THEN /\ ev' = Event(u, "photo", "recognition_failed", None, {}, None, 0, <<>>)
          /\ last_photo' = [last_photo EXCEPT ![u] = None]
          /\ UNCHANGED <<user_data, db, clock, shown, produced_from>>
     ELSE /\ user_data' = [user_data EXCEPT ![u] = store_composition(@, composition_text)]
          /\ shown' = [shown EXCEPT ![u] = @ \cup PreviewKeyboard]
          /\ ev' = Event(u, "photo", "preview",
                         [preview |-> Slice(composition_text, PreviewLen),
                          ellipsis |-> composition_text.len > PreviewLen],
                         PreviewKeyboard, None, 0, <<>>)
          /\ last_photo' = [last_photo EXCEPT ![u] = composition_text]
          /\ UNCHANGED <<db, clock, produced_from>>

handle_photo(u, texts) ==
  /\ \E resp \in OcrResponses(texts) : photo_step(u, resp)
  /\ UNCHANGED app

----------------------------------------------------------------------------
(* button_callback *)

\* if not composition
no_composition(composition) == Falsy(composition)

\* Mutant of analysis_failed: the check of the gateway's result is missing
analysis_failed_never(analysis) == FALSE

\* if not analysis
analysis_failed(analysis) == Falsy(analysis)

\* Mutant of analysis_row: the composition is stored whole
analysis_row_untruncated(user_id, analysis, composition) ==
  [id |-> Len(db) + 1,
   user_id |-> user_id,
   product_name |-> Get(analysis, "productName", "?"),
   composition |-> composition,
   verdict |-> Get(analysis, "verdict", "?"),
   risk_level |-> Get(analysis, "riskLevel", "?"),
   created_at |-> clock]

\* The row the analyze branch inserts: id by AUTOINCREMENT, created_at by
\* DEFAULT CURRENT_TIMESTAMP
analysis_row(user_id, analysis, composition) ==
  [id |-> Len(db) + 1,
   user_id |-> user_id,
   product_name |-> Get(analysis, "productName", "?"),
   composition |-> Slice(composition, ExcerptLen),
   verdict |-> Get(analysis, "verdict", "?"),
   risk_level |-> Get(analysis, "riskLevel", "?"),
   created_at |-> clock]

\* The analysis message of the analyze and back_to_analysis branches
analysis_response(analysis) ==
  [risk_emoji |-> risk_emoji(Get(analysis, "riskLevel", "None")),
   productName |-> Get(analysis, "productName", "Product"),
   verdict |-> Get(analysis, "verdict", "?")]

\* context.user_data['last_analysis'] = analysis
store_analysis(session, analysis) == [session EXCEPT !.last_analysis = analysis]

\* Mutant of analyze_not_found: the gateway is called before the text is looked at
analyze_not_found_after_call(u) ==
  /\ ev' = Event(u, "analyze", "analysis_error", None, {},
                 [mode |-> "analyze", text |-> user_data[u].last_composition], 0, <<>>)
  /\ UNCHANGED <<user_data, db, clock, shown, last_photo, produced_from>>

\* await query.edit_message_text(text not found); return
analyze_not_found(u) ==
  /\ ev' = Event(u, "analyze", "text_not_found", None, {}, None, 0, <<>>)
  /\ UNCHANGED <<user_data, db, clock, shown, last_photo, produced_from>>

\* The analyze branch after `await analyze_with_gemini(composition)`:
\* `composition` is the local variable read before the call
analyze_resume(u, composition, resp, db_ok) ==
  LET analysis == analyze_with_gemini(resp)
      call == [mode |-> "analyze", text |-> composition]
  IN IF analysis_failed(analysis)
     THEN /\ ev' = Event(u, "analyze", "analysis_error", None, {}, call, 0, <<>>)
          /\ UNCHANGED <<user_data, db, clock, shown, last_photo, produced_from>>
     ELSE IF ~db_ok
     THEN \* sqlite3 raises and nothing in button_callback catches it: the
          \* progress message stays
          /\ ev' = Event(u, "analyze", "analyzing", None, {}, call, 0, <<>>)
          /\ UNCHANGED <<user_data, db, clock, shown, last_photo, produced_from>>
     ELSE /\ Len(db) < MaxRecords
          /\ db' = Append(db, analysis_row(u, analysis, composition))
          /\ user_data' = [user_data EXCEPT ![u] = store_analysis(@, analysis)]
          /\ produced_from' = [produced_from EXCEPT ![u] = composition]
          /\ shown' = [shown EXCEPT ![u] = @ \cup AnalysisKeyboard]
          /\ ev' = Event(u, "analyze", "analysis", analysis_response(analysis),
                         AnalysisKeyboard, call, Len(db) + 1, <<>>)
          /\ UNCHANGED <<clock, last_photo>>

\* The analyze branch, with the provider's answer and whether sqlite works
analyze_step(u, resp, db_ok) ==
  /\ "analyze" \in shown[u]
  /\ LET composition == user_data[u].last_composition
     IN IF no_composition(composition)
        THEN analyze_not_found(u)
        ELSE analyze_resume(u, composition, resp, db_ok)

button_analyze(u, members) ==
  /\ \E resp \in GeminiResponses(members), db_ok \in BOOLEAN : analyze_step(u, resp, db_ok)
  /\ UNCHANGED app

\* if not recipes or not recipes.get('recipes')
recipes_failed(recipes) == Falsy(recipes) \/ Len(Get(recipes, "recipes", <<>>)) = 0

\* The recipes branch, with the provider's answer
recipes_step(u, resp) ==
  /\ "recipes" \in shown[u]
  /\ LET composition == user_data[u].last_composition
         recipes == analyze_with_gemini(resp)
         call == [mode |-> "recipes", text |-> composition]
     IN IF recipes_failed(recipes)
        THEN /\ ev' = Event(u, "recipes", "recipes_failed", None, {}, call, 0, <<>>)
             /\ UNCHANGED <<user_data, db, clock, shown, last_photo, produced_from>>
        ELSE /\ ev' = Event(u, "recipes", "recipes",
                            [recipes |-> Take(recipes.recipes, RecipeLimit)],
                            RecipesKeyboard, call, 0, <<>>)
             /\ shown' = [shown EXCEPT ![u] = @ \cup RecipesKeyboard]
             /\ UNCHANGED <<user_data, db, clock, last_photo, produced_from>>

button_recipes(u) ==
  /\ \E resp \in GeminiResponses(RecipeMembers) : recipes_step(u, resp)
  /\ UNCHANGED app

\* context.user_data.get('last_analysis', {})
get_last_analysis(session) ==
  IF session.last_analysis = None THEN EmptyDict ELSE session.last_analysis

button_back_to_analysis(u) ==
  /\ "back_to_analysis" \in shown[u]
  /\ ev' = Event(u, "back_to_analysis", "analysis",
                 analysis_response(get_last_analysis(user_data[u])),
                 AnalysisKeyboard, None, 0, <<>>)
  /\ shown' = [shown EXCEPT ![u] = @ \cup AnalysisKeyboard]
  /\ UNCHANGED <<user_data, db, clock, last_photo, produced_from, app>>

button_cancel(u) ==
  /\ "cancel" \in shown[u]
  /\ ev' = Event(u, "cancel", "cancelled", None, {}, None, 0, <<>>)
  /\ UNCHANGED <<user_data, db, clock, shown, last_photo, produced_from, app>>

\* callback_data 'edit' matches no branch: only query.answer() runs
button_edit(u) ==
  /\ "edit" \in shown[u]
  /\ ev' = Event(u, "edit", "none", None, {}, None, 0, <<>>)
  /\ UNCHANGED <<user_data, db, clock, shown, last_photo, produced_from, app>>

----------------------------------------------------------------------------
(* history *)

\* Mutant of select_where: the WHERE clause is missing
select_all(user_id) == 1..Len(db)

\* WHERE user_id = ?: the ids of the rows selected
select_where(user_id) == {i \in 1..Len(db) : db[i].user_id = user_id}

\* ORDER BY created_at DESC: SQL leaves the order of rows with equal
\* created_at open, so every order non-increasing in created_at can come back
order_by_created_at_desc(ids) ==
  {p \in [1..Cardinality(ids) -> ids] :
     /\ \A i, j \in 1..Cardinality(ids) : i # j => p[i] # p[j]
     /\ \A i, j \in 1..Cardinality(ids) : i < j => db[p[i]].created_at >= db[p[j]].created_at}

\* LIMIT 10
limit(rows) == Take(rows, HistoryLimit)

\* One line of the history message per fetched row
history_response(results) ==
  [i \in 1..Len(results) |->
     [risk_emoji |-> risk_emoji(db[results[i]].risk_level),
      product |-> db[results[i]].product_name,
      verdict |-> db[results[i]].verdict,
      created_at |-> db[results[i]].created_at]]

\* Mutant of history: the handler also resets the session of the user
history_resetting(u) ==
  /\ \E ordered \in order_by_created_at_desc(select_where(u)) :
       LET results == limit(ordered)
       IN IF Len(results) = 0
          THEN ev' = Event(u, "history", "history_empty", None, {}, None, 0, results)
          ELSE ev' = Event(u, "history", "history", history_response(results), {}, None, 0, results)
  /\ user_data' = [user_data EXCEPT ![u] = NoSession]
  /\ UNCHANGED <<db, clock, shown, last_photo, produced_from, app>>

history(u) ==
  /\ \E ordered \in order_by_created_at_desc(select_where(u)) :
       LET results == limit(ordered)
       IN IF Len(results) = 0
          THEN ev' = Event(u, "history", "history_empty", None, {}, None, 0, results)
          ELSE ev' = Event(u, "history", "history", history_response(results), {}, None, 0, results)
  /\ UNCHANGED <<user_data, db, clock, shown, last_photo, produced_from, app>>

----------------------------------------------------------------------------
(* Environment: the database clock and process restarts *)

Tick ==
  /\ clock < MaxClock
  /\ clock' = clock + 1
  /\ UNCHANGED <<user_data, db, shown, last_photo, produced_from, ev, app>>

\* main() after a restart of the process: init_db keeps the table, the
\* Application is built without persistence so every user_data starts empty
main ==
  /\ user_data' = [u \in Users |-> NoSession]
  /\ produced_from' = [u \in Users |-> None]
  /\ db' = init_db(db)
  /\ ev' = Event("u1", "restart", "none", None, {}, None, 0, <<>>)
  /\ UNCHANGED <<clock, shown, last_photo, app>>

----------------------------------------------------------------------------
(* The Application's update queue: main() builds the Application with the  *)
(* defaults and run_polling() feeds it. Here a handler is two steps: up to *)
(* the await of its gateway call, and from the gateway's answer on.        *)

\* Mutant of may_fetch: Application.builder().concurrent_updates(True)
may_fetch_concurrent(a) == TRUE

\* Application.builder().token(TG_TOKEN).build(): without concurrent_updates
\* the Application awaits the handler of an update before it takes the next
\* update from the queue
may_fetch(a) == a.running = <<>>

Remove(seq, i) == SubSeq(seq, 1, i - 1) \o SubSeq(seq, i + 1, Len(seq))

\* run_polling(): an update (a photo message, a press of "analyze") arrives
\* and is put at the end of the update queue
enqueue(u, kind) ==
  /\ app.arrived < MaxUpdates
  /\ kind = "analyze" => "analyze" \in shown[u]
  /\ app' = [app EXCEPT !.update_queue =
                          Append(@, [user |-> u, kind |-> kind, n |-> app.arrived + 1]),
                        !.arrived = @ + 1]
  /\ UNCHANGED <<user_data, db, clock, shown, last_photo, produced_from, ev>>

\* handle_photo up to `await ocr_recognize(photo_path)`
photo_begin(upd) ==
  /\ app' = [app EXCEPT !.update_queue = Tail(@),
                        !.running = Append(@, [user |-> upd.user, op |-> "photo",
                                               composition |-> None]),
                        !.started = upd.n]
  /\ ev' = Event(upd.user, "photo", "recognizing", None, {}, None, 0, <<>>)
  /\ UNCHANGED <<user_data, db, clock, shown, last_photo, produced_from>>

\* The analyze branch up to `await analyze_with_gemini(composition)`
analyze_begin(upd) ==
  LET composition == user_data[upd.user].last_composition
  IN IF no_composition(composition)
     THEN /\ analyze_not_found(upd.user)
          /\ app' = [app EXCEPT !.update_queue = Tail(@), !.started = upd.n]
     ELSE /\ app' = [app EXCEPT !.update_queue = Tail(@),
                                !.running = Append(@, [user |-> upd.user, op |-> "analyze",
                                                       composition |-> composition]),
                                !.started = upd.n]
          /\ ev' = Event(upd.user, "analyze", "analyzing", None, {},
                         [mode |-> "analyze", text |-> composition], 0, <<>>)
          /\ UNCHANGED <<user_data, db, clock, shown, last_photo, produced_from>>

\* The Application takes the next update and runs its handler
process_update ==
  /\ app.update_queue # <<>>
  /\ may_fetch(app)
  /\ Len(app.running) < MaxRunning
  /\ LET upd == Head(app.update_queue)
     IN IF upd.kind = "photo" THEN photo_begin(upd) ELSE analyze_begin(upd)

\* handle_photo from the answer of the Recognition Gateway on
resume_photo(i, texts) ==
  /\ i \in 1..Len(app.running)
  /\ app.running[i].op = "photo"
  /\ \E resp \in OcrResponses(texts) : photo_step(app.running[i].user, resp)
  /\ app' = [app EXCEPT !.running = Remove(@, i)]

\* The analyze branch from the answer of the Analysis Gateway on
resume_analyze(i, members) ==
  /\ i \in 1..Len(app.running)
  /\ app.running[i].op = "analyze"
  /\ \E resp \in GeminiResponses(members), db_ok \in BOOLEAN :
       analyze_resume(app.running[i].user, app.running[i].composition, resp, db_ok)
  /\ app' = [app EXCEPT !.running = Remove(@, i)]

----------------------------------------------------------------------------
(* Specifications *)

LongText == [body |-> "b", len |-> MaxTextLen]

FullAnalysis == [productName |-> "Snack", verdict |-> "ok", riskLevel |-> "safe"]

\* Two users, one label text and one analysis payload: the interleavings of
\* the users' events with each other and with the clock
Next ==
  \/ \E u \in Users : start(u)
  \/ \E u \in Users : help_command(u)
  \/ \E u \in Users : handle_photo(u, {LongText})
  \/ \E u \in Users : button_analyze(u, {FullAnalysis})
  \/ \E u \in Users : button_recipes(u)
  \/ \E u \in Users : button_back_to_analysis(u)
  \/ \E u \in Users : button_cancel(u)
  \/ \E u \in Users : button_edit(u)
  \/ \E u \in Users : history(u)
  \/ \E u \in Users : clear_command(u)
  \/ Tick

Spec == Init /\ [][Next]_vars

\* One user, every label text, one analysis payload, restarts: the session
\* of a user in full
NextSession ==
  \/ start("u1")
  \/ help_command("u1")
  \/ handle_photo("u1", Texts)
  \/ button_analyze("u1", {FullAnalysis})
  \/ button_recipes("u1")
  \/ button_back_to_analysis("u1")
  \/ button_cancel("u1")
  \/ button_edit("u1")
  \/ history("u1")
  \/ Tick
  \/ main

SpecSession == Init /\ [][NextSession]_vars

\* One user, every label text and every analysis payload, no restart: what
\* the analyze branch makes of the provider's answers
NextAnalysis ==
  \/ handle_photo("u1", Texts)
  \/ button_analyze("u1", AnalysisMembers)
  \/ button_back_to_analysis("u1")
  \/ button_recipes("u1")
  \/ history("u1")

SpecAnalysis == Init /\ [][NextAnalysis]_vars

\* Two users, every label text, one analysis payload: the sessions of two
\* users side by side
NextUsers ==
  \/ \E u \in Users : handle_photo(u, Texts)
  \/ \E u \in Users : button_analyze(u, {FullAnalysis})
  \/ \E u \in Users : button_recipes(u)
  \/ \E u \in Users : button_back_to_analysis(u)
  \/ \E u \in Users : button_cancel(u)
  \/ \E u \in Users : history(u)

SpecUsers == Init /\ [][NextUsers]_vars

\* One user, every label text, one analysis payload: photo and "analyze"
\* updates arriving while a handler waits for its gateway
NextDispatch ==
  \/ \E kind \in {"photo", "analyze"} : enqueue("u1", kind)
  \/ process_update
  \/ \E i \in 1..MaxRunning : resume_photo(i, Texts)
  \/ \E i \in 1..MaxRunning : resume_analyze(i, {FullAnalysis})

SpecDispatch == Init /\ [][NextDispatch]_vars

----------------------------------------------------------------------------
(* Claims *)

\* The event handled last is an "analyze" press of user u
AnalyzeEvent(u) == ev.op = "analyze" /\ ev.user = u

\* An analyze event that presented a result or inserted a row
AnalyzeResult(u) ==
  /\ AnalyzeEvent(u)
  /\ (ev.reply = "analysis" \/ ev.record > 0)

C2_LastAnalysisIsOfCurrentText ==
  \A u \in Users :
    user_data[u].last_analysis # None =>
      produced_from[u] = user_data[u].last_composition

\* C3 as stated: a "recipes" press on a session that holds no analysis is
\* answered with an error and makes no gateway call.
C3_RecipesWithoutAnalysisMakesNoCall ==
  \A u \in Users :
    (ev.op = "recipes" /\ ev.user = u /\ user_data[u].last_analysis = None) =>
      (ev.call = None /\ ev.reply # "recipes")

\* C4: an "analyze" press on a session with no recognized text shows the
\* "text not found" error, calls no gateway, inserts no row and leaves every
\* session and the table as they were.
C4_AnalyzeWithoutTextIsRefused ==
  [][\A u \in Users :
       (user_data[u].last_composition \in {None, EmptyText} /\ AnalyzeEvent(u)') =>
         \A resp \in GeminiResponses(AnalysisMembers) : \A db_ok \in BOOLEAN :
           analyze_step(u, resp, db_ok) =>
             /\ ev'.reply = "text_not_found"
             /\ ev'.call = None
             /\ ev'.record = 0
             /\ db' = db
             /\ user_data' = user_data]_vars

\* Witness of C4: after a restart the user pressed "analyze" on an old
\* preview message and got the error.
C4_Witness ==
  /\ ev.op = "analyze"
  /\ ev.reply = "text_not_found"
  /\ "analyze" \in shown[ev.user]
  /\ user_data[ev.user].last_composition = None
  /\ last_photo[ev.user] \in Texts

\* The provider failed (exception, error status) or its output holds no
\* complete JSON object
HasObject(content) ==
  \E i \in 1..Len(content) :
    /\ content[i] = "{"
    /\ \/ (i + 1 <= Len(content) /\ content[i + 1] = "}")
       \/ (i + 2 <= Len(content) /\ content[i + 1] = "m" /\ content[i + 2] = "}")

GatewayFailed(resp) ==
  resp.raised \/ resp.status # 200 \/ ~HasObject(resp.content)

\* C5: when the gateway fails or answers with text that holds no JSON
\* object, "analyze" shows the analysis error, inserts no row and leaves
\* every session as it was.
C5_GatewayFailureLeavesStateUnchanged ==
  [][\A u \in Users :
       (user_data[u].last_composition \in Texts /\ AnalyzeEvent(u)') =>
         \A resp \in GeminiResponses(AnalysisMembers) : \A db_ok \in BOOLEAN :
           (GatewayFailed(resp) /\ analyze_step(u, resp, db_ok)) =>
             /\ ev'.reply = "analysis_error"
             /\ ev'.record = 0
             /\ db' = db
             /\ user_data' = user_data]_vars

\* Witness of C5: an analyze of a recognized text, after an earlier
\* successful one, ended in the analysis error.
C5_Witness ==
  /\ ev.op = "analyze"
  /\ ev.reply = "analysis_error"
  /\ ev.call # None
  /\ user_data[ev.user].last_composition \in Texts
  /\ user_data[ev.user].last_analysis # None
  /\ Len(db) = 1

\* The analysis the gateway returned is a non-empty JSON object
GatewayReturned(resp) == ~Falsy(analyze_with_gemini(resp))

\* The gateway answers to an "analyze" call that yield an analysis
ReturnedResponses ==
  {resp \in GeminiResponses(AnalysisMembers) : GatewayReturned(resp)}

\* C6: an "analyze" of a recognized text for which the gateway returns an
\* analysis and the insert succeeds appends exactly one row, of the pressing
\* user, with the risk level and product name of the analysis and the first
\* 500 characters of the text, shows the verdict with the recipes and
\* new-photo buttons, and stores the analysis in the session.
C6_SuccessfulAnalyzeAppendsOneRow ==
  [][\A u \in Users :
       (user_data[u].last_composition \in Texts /\ AnalyzeEvent(u)') =>
         \A resp \in ReturnedResponses :
           analyze_step(u, resp, TRUE) =>
             LET text == user_data[u].last_composition
                 analysis == analyze_with_gemini(resp)
                 row == db'[Len(db')]
             IN /\ Len(db') = Len(db) + 1
                /\ SubSeq(db', 1, Len(db)) = db
                /\ row.user_id = u
                /\ "riskLevel" \in DOMAIN analysis => row.risk_level = analysis.riskLevel
                /\ "productName" \in DOMAIN analysis => row.product_name = analysis.productName
                /\ row.composition.body = text.body
                /\ row.composition.len = (IF text.len > 500 THEN 500 ELSE text.len)
                /\ ev'.reply = "analysis"
                /\ ev'.record = Len(db')
                /\ ev'.buttons = {"recipes", "cancel"}
                /\ "verdict" \in DOMAIN analysis => ev'.view.verdict = analysis.verdict
                /\ user_data'[u].last_analysis = analysis]_vars

\* Witness of C6: the analysis of a text longer than 500 characters was
\* shown and its row, the second of the table, holds a 500-character excerpt
\* and the risk level the gateway gave.
C6_Witness ==
  /\ AnalyzeResult("u1")
  /\ ev.reply = "analysis"
  /\ ev.record = 2
  /\ db[2].composition = [body |-> "b", len |-> 500]
  /\ db[2].risk_level = "low"
  /\ db[2].product_name = "Snack"
  /\ user_data["u1"].last_composition.len > 500

\* C7 as stated: when the insert into the table fails during "analyze", the
\* analysis is still shown to the user and stored in the session.
C7_AnalysisShownWhenInsertFails ==
  [][\A u \in Users :
       (user_data[u].last_composition \in Texts /\ AnalyzeEvent(u)') =>
         \A resp \in GeminiResponses(AnalysisMembers) :
           (GatewayReturned(resp) /\ analyze_step(u, resp, FALSE)) =>
             /\ ev'.reply = "analysis"
             /\ user_data'[u].last_analysis = analyze_with_gemini(resp)]_vars

\* The risk levels the program knows
RiskLevels == {"safe", "moderate", "high"}

\* C8 as stated: when the returned analysis has no riskLevel or one outside
\* {safe, moderate, high}, the row holds the unknown sentinel (the program's
\* is "?") and the verdict is shown with the unknown marker, never as safe.
C8_UnknownRiskIsNormalized ==
  \A u \in Users :
    (AnalyzeResult(u) /\ ev.reply = "analysis"
       /\ Get(user_data[u].last_analysis, "riskLevel", "None") \notin RiskLevels) =>
      /\ db[ev.record].risk_level = "?"
      /\ ev.view.risk_emoji = "question"

\* C9: the rows a history listing fetches are all rows of the invoking user.
C9_HistoryOnlyOwnRows ==
  ev.op = "history" =>
    \A i \in 1..Len(ev.results) : db[ev.results[i]].user_id = ev.user

\* Witness of C9: both users have inserted rows and a listing fetched the
\* one row of its user.
C9_Witness ==
  /\ ev.op = "history"
  /\ ev.user = "u1"
  /\ Len(db) = 2
  /\ db[1].user_id = "u2"
  /\ db[2].user_id = "u1"
  /\ ev.results = <<2>>

\* C10 as stated: a history listing holds at most 10 rows, the most recently
\* written first, also among rows with the same created_at.
C10_HistoryNewestFirst ==
  ev.op = "history" =>
    /\ Len(ev.results) <= HistoryLimit
    /\ \A i, j \in 1..Len(ev.results) : i < j => ev.results[i] > ev.results[j]

\* The Recognition Gateway failed (exception, error status) or recognized
\* no character
RecognitionFailed(resp) ==
  resp.raised \/ resp.status # 200 \/ resp.text.len = 0

\* C11: when the Recognition Gateway fails or returns an empty string for a
\* photo, the user is left with the recognition-failure message, the photo
\* delivers no decision buttons, and every session (recognized text, last
\* analysis) is exactly what it was before the photo event.
C11_RecognitionFailureLeavesSession ==
  [][\A u \in Users :
       (ev'.op = "photo" /\ ev'.user = u) =>
         \A resp \in OcrResponses(Texts) :
           (RecognitionFailed(resp) /\ photo_step(u, resp)) =>
             /\ ev'.reply = "recognition_failed"
             /\ ev'.buttons = {}
             /\ shown' = shown
             /\ user_data' = user_data
             /\ db' = db]_vars

\* Witness of C11: a photo failed to be recognized while the session held
\* the text and the analysis of an earlier photo, and it still holds them.
C11_Witness ==
  /\ ev.op = "photo"
  /\ ev.reply = "recognition_failed"
  /\ last_photo[ev.user] = None
  /\ user_data[ev.user].last_composition \in Texts
  /\ user_data[ev.user].last_analysis = FullAnalysis

\* C12 as stated: after a "cancel" press the session of the user holds no
\* recognized text and no last analysis.
C12_CancelClearsSession ==
  \A u \in Users :
    (ev.op = "cancel" /\ ev.user = u) => user_data[u] = NoSession

\* C13 as stated: "back" redisplays the last analysis of the session, and
\* when the session holds none the user is shown an error, not an analysis
\* view.
C13_BackWithoutAnalysisShowsError ==
  \A u \in Users :
    (ev.op = "back_to_analysis" /\ ev.user = u) =>
      IF user_data[u].last_analysis = None
      THEN ev.reply # "analysis"
      ELSE /\ ev.reply = "analysis"
           /\ ev.view = analysis_response(user_data[u].last_analysis)

\* C14 as stated: after the clear-history command of a user the table
\* holds no row of that user (the user's listing is empty), and the rows of
\* every other user are the ones it held before.
C14_ClearRemovesOwnRows ==
  [][\A u \in Users :
       clear_command(u) =>
         /\ \A i \in 1..Len(db') : db'[i].user_id # u
         /\ \A i \in 1..Len(db) :
              db[i].user_id # u => \E j \in 1..Len(db') : db'[j] = db[i]]_vars

\* The fields of a StructuredAnalysis the analyze prompt asks for and the
\* analysis message and the row are built from
RequiredFields == {"productName", "verdict", "riskLevel"}

\* C15 as stated: when the gateway returns a JSON object that lacks a
\* required field, "analyze" shows an error, fills no field with a
\* placeholder and inserts no row.
C15_IncompleteAnalysisRejected ==
  [][\A u \in Users :
       (user_data[u].last_composition \in Texts /\ AnalyzeEvent(u)') =>
         \A resp \in ReturnedResponses :
           (~(RequiredFields \subseteq DOMAIN analyze_with_gemini(resp))
              /\ analyze_step(u, resp, TRUE)) =>
             /\ ev'.reply = "analysis_error"
             /\ ev'.record = 0
             /\ db' = db]_vars

\* C16: the table is append-only: every step keeps the rows it held, in
\* place and unmodified, and a row added gets an id greater than the id of
\* every row written before it.
C16_HistoryAppendOnly ==
  [][/\ Len(db') >= Len(db)
     /\ SubSeq(db', 1, Len(db)) = db
     /\ \A i \in (Len(db) + 1)..Len(db') :
          \A j \in 1..(i - 1) : db'[j].id < db'[i].id]_vars

\* Witness of C16: two rows were written, the process restarted, and the
\* table still holds both with increasing ids.
C16_Witness ==
  /\ ev.op = "restart"
  /\ Len(db) = 2
  /\ db[1].id < db[2].id
  /\ user_data["u1"] = NoSession

\* C17: the history command changes no session, of the invoking user or of
\* any other, and no row of the table.
C17_HistoryIsReadOnly ==
  [][\A u \in Users :
       (ev'.op = "history" /\ ev'.user = u /\ history(u)) =>
         /\ user_data' = user_data
         /\ db' = db]_vars

\* Witness of C17: a listing with a row in it was shown to a user whose
\* session holds a text and an analysis, while the other user's session
\* holds a text.
C17_Witness ==
  /\ ev.op = "history"
  /\ ev.user = "u1"
  /\ Len(ev.results) = 1
  /\ user_data["u1"].last_analysis = FullAnalysis
  /\ user_data["u1"].last_composition \in Texts
  /\ user_data["u2"].last_composition \in Texts

\* C18: an event of one user changes the session of no other user, and what
\* it does is made of its own user's session: "analyze" sends the gateway the
\* text of the pressing user's session and stores its excerpt, "recipes"
\* sends that text, "back" shows the analysis of the pressing user's session.
C18_UsersAreIndependent ==
  [][\A u \in Users :
       /\ user_data'[u] # user_data[u] => ev'.user = u
       /\ (ev'.user = u /\ ev' # ev) =>
            /\ (ev'.op \in {"analyze", "recipes"} /\ ev'.call # None) =>
                 ev'.call.text = user_data[u].last_composition
            /\ (ev'.op = "analyze" /\ ev'.record > 0) =>
                 db'[ev'.record].composition = Slice(user_data[u].last_composition, ExcerptLen)
            /\ ev'.op = "back_to_analysis" =>
                 ev'.view = analysis_response(get_last_analysis(user_data[u]))]_vars

\* Witness of C18: user u2 analyzed the text "b" while the session of user
\* u1 held the text "a" and an analysis of it.
C18_Witness ==
  /\ AnalyzeResult("u2")
  /\ ev.call.text = LongText
  /\ user_data["u1"].last_composition = [body |-> "a", len |-> 3]
  /\ user_data["u1"].last_analysis = FullAnalysis
  /\ produced_from["u1"] = [body |-> "a", len |-> 3]

\* C19: updates are handled in their order of arrival and no handler starts
\* while an earlier one is suspended in its gateway call; so when an
\* "analyze" inserts its row and stores its analysis, the session still holds
\* the text the analysis was computed from: no photo stored a text in between.
C19_HandlersRunOneAtATime ==
  [][/\ app'.started # app.started =>
          /\ app.running = <<>>
          /\ app'.started = app.started + 1
     /\ Len(db') > Len(db) =>
          LET row == db'[Len(db')]
          IN /\ row.composition = Slice(user_data[row.user_id].last_composition, ExcerptLen)
             /\ produced_from'[row.user_id] = user_data'[row.user_id].last_composition]_vars

\* Witness of C19: a photo arrived while an "analyze" was waiting for the
\* gateway; the analyze has stored its result and the photo is still in the
\* queue.
C19_Witness ==
  /\ ev.op = "analyze"
  /\ ev.record > 0
  /\ app.running = <<>>
  /\ app.update_queue # <<>>
  /\ Head(app.update_queue).kind = "photo"
  /\ Head(app.update_queue).n = app.started + 1
  /\ app.started >= 2

\* The first complete object literal of a free-form output: the position of
\* its opening brace, 0 when the output holds none (none present, or the
\* only one is truncated)
FirstObjectAt(content) ==
  LET starts == {i \in 1..Len(content) :
                   /\ content[i] = "{"
                   /\ \/ (i + 1 <= Len(content) /\ content[i + 1] = "}")
                      \/ (i + 2 <= Len(content) /\ content[i + 1] = "m"
                            /\ content[i + 2] = "}")}
  IN IF starts = {} THEN 0 ELSE CHOOSE i \in starts : \A j \in starts : i <= j

\* What extracting the first balanced object literal yields: its members,
\* or the malformed failure when there is none
FirstBalancedObject(resp) ==
  LET at == FirstObjectAt(resp.content)
  IN IF at = 0 THEN None
     ELSE IF resp.content[at + 1] = "}" THEN EmptyDict
     ELSE resp.members

\* C20 as stated: from every free-form output the provider answers an
\* "analyze" call with, the extraction returns the first balanced object
\* literal (the first of several objects), and the malformed failure when
\* the output holds no complete object.
C20_ExtractsFirstBalancedObject ==
  [][\A u \in Users :
       (user_data[u].last_composition \in Texts /\ AnalyzeEvent(u)') =>
         \A resp \in GeminiResponses(AnalysisMembers) : \A db_ok \in BOOLEAN :
           (~resp.raised /\ resp.status = 200 /\ analyze_step(u, resp, db_ok)) =>
             analyze_with_gemini(resp) = FirstBalancedObject(resp)]_vars

====
